---- MODULE Spec2Model ----
(***************************************************************************)
(* State-machine model of the e-voting research pipeline:                  *)
(*   evoting_system/blockchain.py        Block, VoteChain                  *)
(*   evoting_system/crypto_primitives.py ToyZKP, ToyFHE, HomomorphicTally  *)
(*   evoting_system/biometric.py         cancellable templates             *)
(*   evoting_system/pipeline.py          EVotingPipeline                   *)
(*   attacks/simulate_attacks.py         replay / tamper / node compromise *)
(*                                                                         *)
(* SHA-256 is modelled as an ideal (collision-free) digest: a digest value *)
(* carries its pre-image, so two digests are equal exactly when their      *)
(* inputs are.  The leading characters of a block hash, which decide the   *)
(* proof-of-work prefix test, are a deterministic pseudo-random function   *)
(* of the hashed fields (Lead).  Integers of the toy cryptosystems are     *)
(* scaled down so that every product fits the model checker's integers.    *)
(*                                                                         *)
(* Specifications: Spec (the pipeline, one call at a time), AttackSpec     *)
(* (ledger tampering), ZkpSpec and FheSpec (ToyZKP and ToyFHE alone),      *)
(* StepSpec (cast_vote statement by statement, two callers), MineSpec      *)
(* (add_block iteration by iteration).                                     *)
(***************************************************************************)
EXTENDS Integers, Sequences, FiniteSets, TLC

VARIABLES templates, secret_registry, encrypted_tally, used_nullifiers,
          chain, n, now, enrolls, casts_ok, attack, lastOp, frames

vars == <<templates, secret_registry, encrypted_tally, used_nullifiers,
          chain, n, now, enrolls, casts_ok, attack, lastOp, frames>>

---------------------------------------------------------------------------
(* Bounds of the model *)

\* pipeline.voters: the records discovered in the dataset are 1..NumVoters
NumVoters == 2
\* the ledger grows to at most MaxChain blocks (genesis included)
MaxChain == 3
\* a random draw of a template token or of a cryptosystem's randomness
\* (token_bytes, randbelow) is sampled from the first MaxDraw values of its range
MaxDraw == 2
\* a voter secret (make_secret) is sampled from the first MaxSecretDraw values
MaxSecretDraw == 2
\* a per-cast nonce or KEM seed (token_hex, token_bytes) is sampled from the
\* first MaxNonceDraw values
MaxNonceDraw == 1
\* enroll_voters is called at most MaxEnrolls times
MaxEnrolls == 2
\* number of distinct values of the leading characters of a block hash
\* (16^3 for the three hex characters compared with "000")
LeadSpace == 3

\* a sequence of at most MaxTerms plaintexts is encrypted and summed
MaxTerms == 3
\* a plaintext handed to ToyFHE.encrypt is in 0..MaxValue
MaxValue == 2

\* the nonce search of add_block is followed for at most MaxNonce increments
MaxNonce == 4

\* a tally receives at most MaxVotes votes
MaxVotes == 4

(* Program constants, scaled *)

\* ToyZKP.p (2_147_483_647 in the source, scaled to a small prime)
p == 7
\* ToyZKP.g
g == 5
\* ToyFHE.keygen(modulus_bits=31), scaled
modulus_bits == 2

Voters == 1..NumVoters
\* an identity that is in no dataset record (f"spoof_{victim.voter_id}")
SpoofId == 0
VoterIds == Voters \cup {SpoofId}
Candidates == {"Alice", "Bob"}
AttackerCandidates == {"Mallory", "Eve"}
election_id == "default_election"

Min(a, b) == IF a < b THEN a ELSE b

\* secrets.randbelow(k), sampled: the first m values of 0..k-1
RandBelow(k, m) == 0..(Min(k, m) - 1)

RECURSIVE Pow(_, _, _)
\* pow(b, e, m)
Pow(b, e, m) == IF e = 0 THEN 1 % m ELSE (b * Pow(b, e - 1, m)) % m

RECURSIVE Exp2(_)
Exp2(k) == IF k = 0 THEN 1 ELSE 2 * Exp2(k - 1)

CandidateCode(c) ==
    CASE c = "Alice" -> 1 [] c = "Bob" -> 2 [] c = "Mallory" -> 3
      [] c = "Eve" -> 4 [] OTHER -> 5

---------------------------------------------------------------------------
(* biometric.py *)

\* extract_feature_vector: sha3_512 of the voter's image, two bits kept
extract_feature_vector(voter_id) == voter_id % 4

\* bytes(a ^ b for a, b in zip(feature_vec[:32], cancel_token)), on 2 bits
Xor(a, b) == ((a + b) % 2) + 2 * (((a \div 2) + (b \div 2)) % 2)

create_cancellable_template(feature_vec, user_id, cancel_token) ==
    LET transformed == Xor(feature_vec, cancel_token)
    IN  [template_id |-> <<"sha256", user_id, transformed>>,
         transformed |-> transformed,
         cancel_token |-> cancel_token]

---------------------------------------------------------------------------
(* blockchain.py *)

ZeroHash == [pre |-> <<>>, lead |-> 0]

genesis_payload == [genesis |-> TRUE]

Has(payload, f) == f \in DOMAIN payload

\* a number derived from the serialized payload (input of the digest)
PayloadCode(payload) ==
      (IF Has(payload, "genesis") THEN (IF payload.genesis THEN 1 ELSE 2) ELSE 0)
    + (IF Has(payload, "voter_id") THEN payload.voter_id ELSE 0)
    + (IF Has(payload, "candidate") THEN CandidateCode(payload.candidate) ELSE 0)
    + (IF Has(payload, "nonce") THEN payload.nonce ELSE 0)
    + (IF Has(payload, "zkp")
         THEN payload.zkp.commitment + payload.zkp.response ELSE 0)
    + (IF Has(payload, "kyber_kem_ct") THEN payload.kyber_kem_ct[2] ELSE 0)

\* the leading characters of sha256(json.dumps(block_data, sort_keys=True))
Lead(index, previous_hash, timestamp, payload, nonce) ==
    (index + 2 * previous_hash.lead + timestamp + PayloadCode(payload) + nonce)
        % LeadSpace

\* Block.compute_hash
compute_hash(b) ==
    [pre  |-> <<b.index, b.previous_hash, b.timestamp, b.payload, b.nonce>>,
     lead |-> Lead(b.index, b.previous_hash, b.timestamp, b.payload, b.nonce)]

\* Block(...): dataclass constructor, nonce = 0, __post_init__ sets hash
Block(index, previous_hash, timestamp, payload) ==
    LET b == [index |-> index, previous_hash |-> previous_hash,
              timestamp |-> timestamp, payload |-> payload, nonce |-> 0]
    IN  [index |-> index, previous_hash |-> previous_hash,
         timestamp |-> timestamp, payload |-> payload, nonce |-> 0,
         hash |-> compute_hash(b)]

\* hash.startswith(self.difficulty_prefix), difficulty_prefix = "000"
startswith_prefix(h) == h.lead = 0

\* faulty variant of MineLoop: "if" in place of "while", one increment at most
MineLoop_OneStep(b) ==
    IF startswith_prefix(b.hash) THEN b
    ELSE LET b1 == [b EXCEPT !.nonce = @ + 1]
         IN  [b1 EXCEPT !.hash = compute_hash(b1)]

RECURSIVE MineLoop(_)
\* while not block.hash.startswith(prefix): block.nonce += 1; rehash
MineLoop(b) ==
    IF startswith_prefix(b.hash) THEN b
    ELSE LET b1 == [b EXCEPT !.nonce = @ + 1]
         IN  MineLoop([b1 EXCEPT !.hash = compute_hash(b1)])

\* faulty variant of add_block: the new block overwrites the tip
add_block_ReplaceTip(ch, payload, timestamp) ==
    [ch EXCEPT ![Len(ch)] = MineLoop(Block(Len(ch), ch[Len(ch)].hash, timestamp, payload))]

\* VoteChain.add_block: the chain after the append (the new block is its tip)
add_block(ch, payload, timestamp) ==
    LET prev  == ch[Len(ch)]
        block == Block(Len(ch), prev.hash, timestamp, payload)
    IN  Append(ch, MineLoop(block))

\* faulty variant of BlockChecks: the stored hash is not recomputed
BlockChecks_NoRehash(curr, prev) ==
    IF curr.previous_hash # prev.hash THEN FALSE
    ELSE IF ~startswith_prefix(curr.hash) THEN FALSE
    ELSE TRUE

\* faulty variant of BlockChecks: the link to the predecessor is not compared
BlockChecks_NoLink(curr, prev) ==
    IF compute_hash(curr) # curr.hash THEN FALSE
    ELSE IF ~startswith_prefix(curr.hash) THEN FALSE
    ELSE TRUE

\* validate_chain, the three tests of one loop iteration
BlockChecks(curr, prev) ==
    IF curr.previous_hash # prev.hash THEN FALSE
    ELSE IF compute_hash(curr) # curr.hash THEN FALSE
    ELSE IF ~startswith_prefix(curr.hash) THEN FALSE
    ELSE TRUE

RECURSIVE ValidateFrom(_, _)
\* for i in range(1, len(self.chain)): return False on the first failure
ValidateFrom(ch, i) ==
    IF i > Len(ch) THEN TRUE
    ELSE IF ~BlockChecks(ch[i], ch[i - 1]) THEN FALSE
    ELSE ValidateFrom(ch, i + 1)

\* VoteChain.validate_chain: chain[k] of the source is ch[k + 1] here
validate_chain(ch) == ValidateFrom(ch, 2)

\* pipeline.chain.validate_unique_nullifiers(): class VoteChain defines
\* __init__, add_block and validate_chain only, so the attribute lookup
\* raises; the outcome of the call is a string ("True", "False" or the
\* name of the exception)
validate_unique_nullifiers(ch) == "AttributeError"

---------------------------------------------------------------------------
(* crypto_primitives.py: ToyZKP *)

\* ToyZKP.make_secret: secrets.randbelow(p - 2) + 1
make_secret == {x + 1 : x \in RandBelow(p - 2, MaxSecretDraw)}

\* ToyZKP.public_from_secret
public_from_secret(secret) == Pow(g, secret, p)

\* a number derived from the context string
\* f"{election_id}:{voter_id}:{candidate}:{nullifier}:{cast_nonce}"
ContextCode(context) ==
    context[2] + CandidateCode(context[3]) + context[4][4][3] + context[5]

\* ToyZKP._challenge: int(sha256(f"{commitment}|{public}|{context}")) % (p - 1)
challenge(commitment, public, context) ==
    (3 * commitment + 5 * public + ContextCode(context)) % (p - 1)

\* faulty variant of prove_knowledge: the response is reduced modulo p
prove_knowledge_ModP(secret, context, r) ==
    LET t == Pow(g, r, p)
        y == public_from_secret(secret)
        c == challenge(t, y, context)
        s == (r + c * secret) % p
    IN  [commitment |-> t, response |-> s]

\* ToyZKP.prove_knowledge, r = secrets.randbelow(p - 2) + 1
prove_knowledge(secret, context, r) ==
    LET t == Pow(g, r, p)
        y == public_from_secret(secret)
        c == challenge(t, y, context)
        s == (r + c * secret) % (p - 1)
    IN  [commitment |-> t, response |-> s]

\* ToyZKP.verify_knowledge
verify_knowledge(public, proof, context) ==
    LET c   == challenge(proof.commitment, public, context)
        lhs == Pow(g, proof.response, p)
        rhs == (proof.commitment * Pow(public, c, p)) % p
    IN  lhs = rhs

---------------------------------------------------------------------------
(* crypto_primitives.py: ToyFHE behind HomomorphicTally (backend toy-fhe) *)

\* ToyFHE.keygen: n = secrets.randbits(modulus_bits) | 1
keygen == {k \in 0..(Exp2(modulus_bits) - 1) : k % 2 = 1}

\* ToyFHE.encrypt, r = secrets.randbelow(pk.n)
encrypt(value, pk_n, r) == (value + r * pk_n) % (pk_n * pk_n)

\* faulty variant of add: ciphertexts are multiplied, as in Paillier
add_Paillier(c1, c2, pk_n) == (c1 * c2) % (pk_n * pk_n)

\* ToyFHE.add
add(c1, c2, pk_n) == (c1 + c2) % (pk_n * pk_n)

\* faulty variant of decrypt: reduced modulo n * n
decrypt_ModSquare(ciphertext, sk_n) == ciphertext % (sk_n * sk_n)

\* ToyFHE.decrypt
decrypt(ciphertext, sk_n) == ciphertext % sk_n

he_backend == "toy-fhe"

---------------------------------------------------------------------------
(* crypto_primitives.py: DilithiumSignature / KyberKEM fallbacks *)

\* DilithiumSignature.sign: hmac(private_key, message, sha3_512)
sign(message) == <<"hmac_sha3_512", message>>

\* KyberKEM.encapsulate: sha3_512(public_key + seed), seed random
encapsulate(seed) == <<"sha3_512", seed>>

---------------------------------------------------------------------------
(* pipeline.py: EVotingPipeline *)

\* EVotingPipeline._build_nullifier
build_nullifier(tmpl, voter_id) ==
    <<"sha256", election_id, voter_id, tmpl[voter_id].template_id>>

\* cast_vote, line 51: voter_id in self.templates
IsEnrolled(tmpl, voter_id) == voter_id \in DOMAIN tmpl

\* faulty variant of NotEnrolledError: the wrong exception type is raised
NotEnrolledError_Runtime == "RuntimeError: Voter not enrolled"

\* cast_vote, line 52
NotEnrolledError == "KeyError"
\* cast_vote, line 56
DoubleVoteError == "RuntimeError: Replay/double-vote blocked"
\* cast_vote, line 65
ProofInvalidError == "RuntimeError: ZKP verification failed"

\* faulty variant of TallyUpdate: the new ciphertext replaces the running sum
TallyUpdate_Overwrite(tally, candidate, encrypted_vote, pk_n) ==
    [c \in DOMAIN tally \cup {candidate} |->
        IF c = candidate THEN encrypted_vote ELSE tally[c]]

\* cast_vote, lines 68-72: the candidate's running ciphertext
TallyUpdate(tally, candidate, encrypted_vote, pk_n) ==
    [c \in DOMAIN tally \cup {candidate} |->
        IF c # candidate THEN tally[c]
        ELSE IF candidate \notin DOMAIN tally THEN encrypted_vote
        ELSE add(tally[candidate], encrypted_vote, pk_n)]

\* faulty variant of MakePayload: the stored nonce is not the one of the
\* proof's context
MakePayload_OtherNonce(voter_id, candidate, nullifier, cast_nonce, proof, template_id, kem_seed) ==
    [election_id |-> election_id,
     voter_id    |-> voter_id,
     candidate   |-> candidate,
     nullifier   |-> nullifier,
     nonce       |-> cast_nonce + 1,
     zkp         |-> [commitment |-> proof.commitment,
                      response   |-> proof.response],
     template_id |-> template_id,
     he_backend  |-> he_backend,
     dilithium_signature |-> sign(<<>>),
     kyber_kem_ct        |-> encapsulate(kem_seed)]

\* cast_vote, lines 74-88
MakePayload(voter_id, candidate, nullifier, cast_nonce, proof, template_id, kem_seed) ==
    LET core == [election_id |-> election_id,
                 voter_id    |-> voter_id,
                 candidate   |-> candidate,
                 nullifier   |-> nullifier,
                 nonce       |-> cast_nonce,
                 zkp         |-> [commitment |-> proof.commitment,
                                  response   |-> proof.response],
                 template_id |-> template_id,
                 he_backend  |-> he_backend]
    IN  [election_id |-> election_id,
         voter_id    |-> voter_id,
         candidate   |-> candidate,
         nullifier   |-> nullifier,
         nonce       |-> cast_nonce,
         zkp         |-> [commitment |-> proof.commitment,
                          response   |-> proof.response],
         template_id |-> template_id,
         he_backend  |-> he_backend,
         dilithium_signature |-> sign(core),
         kyber_kem_ct        |-> encapsulate(kem_seed)]

\* faulty variant of MarkUsed: the nullifier is never recorded
MarkUsed_Skip(used, nullifier) == used

\* cast_vote, line 91
MarkUsed(used, nullifier) == used \cup {nullifier}

\* faulty variant of NullifierUsed: the guard compares against nothing
NullifierUsed_Never(used, nullifier) == nullifier \in {}

\* cast_vote, line 55
NullifierUsed(used, nullifier) == nullifier \in used

\* EVotingPipeline.decrypt_results
DecryptResults(tally, sk_n) == [c \in DOMAIN tally |-> decrypt(tally[c], sk_n)]

\* the orchestrator's mutable state, as seen before an operation
Snapshot ==
    [tally |-> encrypted_tally, chain |-> chain, used |-> used_nullifiers,
     templates |-> templates, secrets |-> secret_registry]

NoAttack == [at |-> -1, mode |-> "none", upto |-> -1, len0 |-> 0]

\* EVotingPipeline.__init__ (VoteChain.__init__, HomomorphicTally.__init__)
Init ==
    /\ templates = <<>>
    /\ secret_registry = <<>>
    /\ encrypted_tally = <<>>
    /\ used_nullifiers = {}
    /\ chain = <<Block(0, ZeroHash, 0, genesis_payload)>>
    /\ n \in keygen
    /\ now = 1
    /\ enrolls = 0
    /\ casts_ok = 0
    /\ attack = NoAttack
    /\ lastOp = [op |-> "init", voter_id |-> SpoofId, candidate |-> "",
                 result |-> "ok", pre |-> <<>>, ret |-> <<>>]
    /\ frames = <<>>

\* an exception leaves cast_vote before any assignment
Raise(voter_id, candidate, err) ==
    /\ lastOp' = [op |-> "cast_vote", voter_id |-> voter_id,
                  candidate |-> candidate, result |-> err,
                  pre |-> Snapshot, ret |-> <<>>]
    /\ UNCHANGED <<frames, templates, secret_registry, encrypted_tally,
                   used_nullifiers, chain, n, now, enrolls, casts_ok, attack>>

\* EVotingPipeline.enroll_voters
enroll_voters ==
    /\ enrolls < MaxEnrolls
    /\ \E tokens \in [Voters -> RandBelow(4, MaxDraw)], secrets \in [Voters -> make_secret] :
        /\ templates' =
             [v \in DOMAIN templates \cup Voters |->
                IF v \in Voters
                THEN create_cancellable_template(extract_feature_vector(v), v, tokens[v])
                ELSE templates[v]]
        /\ secret_registry' =
             [v \in DOMAIN secret_registry \cup Voters |->
                IF v \in Voters THEN secrets[v] ELSE secret_registry[v]]
    /\ enrolls' = enrolls + 1
    /\ lastOp' = [op |-> "enroll_voters", voter_id |-> SpoofId, candidate |-> "",
                  result |-> "ok", pre |-> Snapshot, ret |-> <<>>]
    /\ UNCHANGED <<frames, encrypted_tally, used_nullifiers, chain, n, now, casts_ok, attack>>

\* EVotingPipeline.cast_vote
cast_vote(voter_id, candidate) ==
    IF ~IsEnrolled(templates, voter_id)
    THEN Raise(voter_id, candidate, NotEnrolledError)
    ELSE LET nullifier == build_nullifier(templates, voter_id) IN
      IF NullifierUsed(used_nullifiers, nullifier)
      THEN Raise(voter_id, candidate, DoubleVoteError)
      ELSE \E cast_nonce \in RandBelow(256, MaxNonceDraw), r0 \in RandBelow(p - 2, MaxDraw),
              er \in RandBelow(n, MaxDraw), kem_seed \in RandBelow(256, MaxNonceDraw) :
        LET secret    == secret_registry[voter_id]
            public    == public_from_secret(secret)
            ctx       == <<election_id, voter_id, candidate, nullifier, cast_nonce>>
            proof     == prove_knowledge(secret, ctx, r0 + 1)
            zkp_valid == verify_knowledge(public, proof, ctx)
            encrypted_vote == encrypt(1, n, er)
            payload   == MakePayload(voter_id, candidate, nullifier, cast_nonce,
                                     proof, templates[voter_id].template_id, kem_seed)
            newchain  == add_block(chain, payload, now)
        IN  IF ~zkp_valid
            THEN Raise(voter_id, candidate, ProofInvalidError)
            ELSE /\ Len(chain) < MaxChain
                 /\ encrypted_tally' = TallyUpdate(encrypted_tally, candidate, encrypted_vote, n)
                 /\ chain' = newchain
                 /\ used_nullifiers' = MarkUsed(used_nullifiers, nullifier)
                 /\ now' = now + 1
                 /\ casts_ok' = casts_ok + 1
                 /\ lastOp' = [op |-> "cast_vote", voter_id |-> voter_id,
                               candidate |-> candidate, result |-> "ok",
                               pre |-> Snapshot,
                               ret |-> [voter_id   |-> voter_id,
                                        candidate  |-> candidate,
                                        block_hash |-> newchain[Len(newchain)].hash,
                                        zkp_valid  |-> zkp_valid,
                                        nullifier  |-> nullifier]]
                 /\ UNCHANGED <<frames, templates, secret_registry, n, enrolls, attack>>

\* EVotingPipeline.decrypt_results
decrypt_results ==
    /\ lastOp' = [op |-> "decrypt_results", voter_id |-> SpoofId, candidate |-> "",
                  result |-> "ok", pre |-> Snapshot,
                  ret |-> DecryptResults(encrypted_tally, n)]
    /\ UNCHANGED <<frames, templates, secret_registry, encrypted_tally, used_nullifiers,
                   chain, n, now, enrolls, casts_ok, attack>>

\* run_election / run_pipeline.main, the audit entries of the report:
\* "chain_valid": validate_chain(), "nullifiers_unique": validate_unique_nullifiers()
audit ==
    /\ lastOp' = [op |-> "audit", voter_id |-> SpoofId, candidate |-> "",
                  result |-> validate_unique_nullifiers(chain), pre |-> Snapshot,
                  ret |-> [chain_valid |-> validate_chain(chain),
                           nullifiers_unique |-> validate_unique_nullifiers(chain)]]
    /\ UNCHANGED <<frames, templates, secret_registry, encrypted_tally, used_nullifiers,
                   chain, n, now, enrolls, casts_ok, attack>>

CastNext == \E voter_id \in VoterIds, candidate \in Candidates : cast_vote(voter_id, candidate)

Next == enroll_voters \/ CastNext \/ decrypt_results \/ audit

Spec == Init /\ [][Next]_vars

---------------------------------------------------------------------------
(* attacks/simulate_attacks.py: direct writes to the ledger *)

\* replay_attack: payload = chain[-1].payload.copy(); add_block(payload);
\* return not validate_unique_nullifiers()
replay_attack ==
    /\ Len(chain) < MaxChain
    /\ chain' = add_block(chain, chain[Len(chain)].payload, now)
    /\ now' = now + 1
    /\ lastOp' = [op |-> "replay_attack", voter_id |-> SpoofId, candidate |-> "",
                  result |-> validate_unique_nullifiers(chain'), pre |-> Snapshot,
                  ret |-> <<>>]
    /\ UNCHANGED <<frames, templates, secret_registry, encrypted_tally, used_nullifiers,
                   n, enrolls, casts_ok, attack>>

\* target.payload[field] = value
SetPayloadField(payload, field, value) ==
    [k \in DOMAIN payload \cup {field} |-> IF k = field THEN value ELSE payload[k]]

MutableFields == {"candidate", "genesis"}

MutationValues(field) ==
    CASE field = "candidate" -> AttackerCandidates
      [] field = "genesis"   -> {FALSE}

AttackLog(op, k) ==
    [op |-> op, voter_id |-> k, candidate |-> "", result |-> "ok",
     pre |-> Snapshot, ret |-> <<>>]

\* tamper_attack / node_compromise_attack, first step, on block k (0-based):
\* one top-level payload field gets a different value; hash and nonce stay
mutate_payload(k, field, value) ==
    /\ attack.mode = "none"
    /\ k \in 0..(Len(chain) - 1)
    /\ Has(chain[k + 1].payload, field) => chain[k + 1].payload[field] # value
    /\ chain' = [chain EXCEPT ![k + 1].payload = SetPayloadField(@, field, value)]
    /\ attack' = [at |-> k, mode |-> "mutated", upto |-> k - 1, len0 |-> Len(chain)]
    /\ lastOp' = AttackLog("mutate_payload", k)
    /\ UNCHANGED <<frames, templates, secret_registry, encrypted_tally, used_nullifiers,
                   n, now, enrolls, casts_ok>>

\* tamper_attack: target.hash = target.compute_hash()
recompute_hash(k) ==
    /\ attack.mode = "mutated"
    /\ attack.at = k
    /\ chain' = [chain EXCEPT ![k + 1].hash = compute_hash(chain[k + 1])]
    /\ attack' = [attack EXCEPT !.mode = "rehashed"]
    /\ lastOp' = AttackLog("recompute_hash", k)
    /\ UNCHANGED <<frames, templates, secret_registry, encrypted_tally, used_nullifiers,
                   n, now, enrolls, casts_ok>>

\* faulty variant of Remined: the hash is not recomputed before the search, which
\* then stops at once on the stale hash
Remined_Stale(b) == MineLoop([b EXCEPT !.nonce = 0])

\* node_compromise_attack: nonce = 0; hash = compute_hash(); search the nonce
Remined(b) ==
    LET b0 == [b EXCEPT !.nonce = 0]
    IN  MineLoop([b0 EXCEPT !.hash = compute_hash(b0)])

remine(k) ==
    /\ attack.mode = "mutated"
    /\ attack.at = k
    /\ chain' = [chain EXCEPT ![k + 1] = Remined(@)]
    /\ attack' = [attack EXCEPT !.mode = "remined", !.upto = k]
    /\ lastOp' = AttackLog("remine", k)
    /\ UNCHANGED <<frames, templates, secret_registry, encrypted_tally, used_nullifiers,
                   n, now, enrolls, casts_ok>>

\* the same re-mining applied to the next block in index order, which first
\* takes the new hash of its predecessor as previous_hash
remine_successor ==
    /\ attack.mode = "remined"
    /\ attack.upto + 1 <= Len(chain) - 1
    /\ LET i == attack.upto + 1
       IN  /\ chain' = [chain EXCEPT ![i + 1] =
                          Remined([@ EXCEPT !.previous_hash = chain[i].hash])]
           /\ attack' = [attack EXCEPT !.upto = i]
           /\ lastOp' = AttackLog("remine_successor", i)
    /\ UNCHANGED <<frames, templates, secret_registry, encrypted_tally, used_nullifiers,
                   n, now, enrolls, casts_ok>>

MutateNext ==
    \E k \in 0..MaxChain, field \in MutableFields :
        \E value \in MutationValues(field) : mutate_payload(k, field, value)

\* run_experiment: one enrolment, the casts, the replay, then the tampering
AttackNext ==
    \/ enrolls = 0 /\ enroll_voters
    \/ attack.mode = "none" /\ CastNext
    \/ attack.mode = "none" /\ replay_attack
    \/ MutateNext
    \/ \E k \in 0..MaxChain : recompute_hash(k)
    \/ \E k \in 0..MaxChain : remine(k)
    \/ remine_successor

AttackSpec == Init /\ [][AttackNext]_vars

---------------------------------------------------------------------------
(* ToyZKP as a pure component: proving under one context, verifying under *)
(* the same or another one                                                *)

\* every secret make_secret can return: randbelow(p - 2) + 1
Secrets == 1..(p - 2)

\* the context strings cast_vote can build (pipeline.py, line 59)
Contexts ==
    {<<election_id, v, c,
       <<"sha256", election_id, v,
         create_cancellable_template(extract_feature_vector(v), v, tok).template_id>>,
       cn>> :
        v \in Voters, c \in Candidates,
        tok \in RandBelow(4, MaxDraw), cn \in RandBelow(256, MaxNonceDraw)}

\* a call of ToyZKP.prove_knowledge(secret, context)
zkp_prove ==
    /\ \E secret \in Secrets, r \in Secrets, context \in Contexts :
          lastOp' = [op |-> "prove_knowledge", secret |-> secret, r |-> r,
                     context |-> context,
                     ret |-> prove_knowledge(secret, context, r)]
    /\ UNCHANGED <<frames, templates, secret_registry, encrypted_tally, used_nullifiers,
                   chain, n, now, enrolls, casts_ok, attack>>

\* a call of ToyZKP.verify_knowledge(public, proof, context) on the proof
\* just made, with the prover's public value
zkp_verify ==
    /\ lastOp.op = "prove_knowledge"
    /\ \E context \in Contexts :
          lastOp' = [op |-> "verify_knowledge", secret |-> lastOp.secret,
                     r |-> lastOp.r, proved_context |-> lastOp.context,
                     context |-> context, proof |-> lastOp.ret,
                     public |-> public_from_secret(lastOp.secret),
                     ret |-> verify_knowledge(public_from_secret(lastOp.secret),
                                              lastOp.ret, context)]
    /\ UNCHANGED <<frames, templates, secret_registry, encrypted_tally, used_nullifiers,
                   chain, n, now, enrolls, casts_ok, attack>>

ZkpNext == zkp_prove \/ zkp_verify

ZkpSpec == Init /\ [][ZkpNext]_vars

---------------------------------------------------------------------------
(* ToyFHE as a pure component: a sequence of plaintexts is encrypted under *)
(* the key n and folded with add, then decrypted                           *)

RECURSIVE Sum(_)
Sum(s) == IF s = <<>> THEN 0 ELSE s[1] + Sum(Tail(s))

\* ToyFHE.encrypt(v1, pk): the first term of a sequence
fhe_encrypt ==
    /\ \E value \in 0..MaxValue, r \in RandBelow(n, MaxDraw) :
          lastOp' = [op |-> "encrypt", values |-> <<value>>,
                     ret |-> encrypt(value, n, r)]
    /\ UNCHANGED <<frames, templates, secret_registry, encrypted_tally, used_nullifiers,
                   chain, n, now, enrolls, casts_ok, attack>>

\* ToyFHE.add(acc, ToyFHE.encrypt(v, pk), pk): one more term
fhe_add ==
    /\ lastOp.op \in {"encrypt", "add"}
    /\ Len(lastOp.values) < MaxTerms
    /\ \E value \in 0..MaxValue, r \in RandBelow(n, MaxDraw) :
          lastOp' = [op |-> "add", values |-> Append(lastOp.values, value),
                     ret |-> add(lastOp.ret, encrypt(value, n, r), n)]
    /\ UNCHANGED <<frames, templates, secret_registry, encrypted_tally, used_nullifiers,
                   chain, n, now, enrolls, casts_ok, attack>>

\* ToyFHE.decrypt(acc, sk)
fhe_decrypt ==
    /\ lastOp.op \in {"encrypt", "add"}
    /\ lastOp' = [op |-> "decrypt", values |-> lastOp.values,
                  ciphertext |-> lastOp.ret, ret |-> decrypt(lastOp.ret, n)]
    /\ UNCHANGED <<frames, templates, secret_registry, encrypted_tally, used_nullifiers,
                   chain, n, now, enrolls, casts_ok, attack>>

FheNext == fhe_encrypt \/ fhe_add \/ fhe_decrypt

FheSpec == Init /\ [][FheNext]_vars

---------------------------------------------------------------------------
(* cast_vote statement by statement: each caller (thread) has a frame with *)
(* its position and local variables; the orchestrator holds no lock, so    *)
(* the statements of two callers interleave freely                         *)

Procs == {"T1", "T2"}

Idle ==
    [pc |-> "idle", voter_id |-> SpoofId, candidate |-> "", nullifier |-> <<>>,
     proof |-> <<>>, cast_nonce |-> 0, block_hash |-> <<>>,
     guards |-> {}, muts |-> <<>>, overlap |-> {},
     result |-> "", ret |-> <<>>]

\* faulty variant of StepAfter: the nullifier is marked before the tally
\* update and the append
StepAfter_MarkFirst(pc) ==
    CASE pc = "check_enrolled"  -> "check_nullifier"
      [] pc = "check_nullifier" -> "prove"
      [] pc = "prove"           -> "mark"
      [] pc = "mark"            -> "tally"
      [] pc = "tally"           -> "append"
      [] pc = "append"          -> "return"

\* the statement that follows a statement of cast_vote in source order
StepAfter(pc) ==
    CASE pc = "check_enrolled"  -> "check_nullifier"
      [] pc = "check_nullifier" -> "prove"
      [] pc = "prove"           -> "tally"
      [] pc = "tally"           -> "append"
      [] pc = "append"          -> "mark"
      [] pc = "mark"            -> "return"

Range(s) == {s[i] : i \in 1..Len(s)}

\* a caller has passed the used-nullifier check and not yet marked
InCritical(f) == "unused" \in f.guards /\ f.pc # "done" /\ ~("mark" \in Range(f.muts))

Advance(t, f) == frames' = [frames EXCEPT ![t] = [f EXCEPT !.pc = StepAfter(frames[t].pc)]]

Fail(t, err) == frames' = [frames EXCEPT ![t].pc = "done", ![t].result = err]

StepInit ==
    /\ templates = <<>>
    /\ secret_registry = <<>>
    /\ encrypted_tally = <<>>
    /\ used_nullifiers = {}
    /\ chain = <<Block(0, ZeroHash, 0, genesis_payload)>>
    /\ n \in keygen
    /\ now = 1
    /\ enrolls = 0
    /\ casts_ok = 0
    /\ attack = NoAttack
    /\ lastOp = [op |-> "init", voter_id |-> SpoofId, candidate |-> "",
                 result |-> "ok", pre |-> <<>>, ret |-> <<>>]
    /\ frames = [t \in Procs |-> Idle]

\* cast_vote is entered (line 50); each caller makes one call, after the
\* enrolment
s_call(t, voter_id, candidate) ==
    /\ enrolls > 0
    /\ frames[t].pc = "idle"
    /\ frames' = [frames EXCEPT ![t] =
                     [Idle EXCEPT !.pc = "check_enrolled",
                                  !.voter_id = voter_id, !.candidate = candidate]]
    /\ UNCHANGED <<templates, secret_registry, encrypted_tally, used_nullifiers,
                   chain, n, now, enrolls, casts_ok, attack, lastOp>>

\* lines 51-52
s_check_enrolled(t) ==
    /\ frames[t].pc = "check_enrolled"
    /\ IF ~IsEnrolled(templates, frames[t].voter_id)
       THEN Fail(t, NotEnrolledError)
       ELSE Advance(t, [frames[t] EXCEPT !.guards = @ \cup {"enrolled"}])
    /\ UNCHANGED <<templates, secret_registry, encrypted_tally, used_nullifiers,
                   chain, n, now, enrolls, casts_ok, attack, lastOp>>

\* lines 54-56
s_check_nullifier(t) ==
    /\ frames[t].pc = "check_nullifier"
    /\ LET nullifier == build_nullifier(templates, frames[t].voter_id)
       IN  IF NullifierUsed(used_nullifiers, nullifier)
           THEN Fail(t, DoubleVoteError)
           ELSE Advance(t, [frames[t] EXCEPT
                               !.nullifier = nullifier,
                               !.guards = @ \cup {"unused"},
                               !.overlap = {u \in Procs \ {t} :
                                              /\ InCritical(frames[u])
                                              /\ frames[u].nullifier = nullifier}])
    /\ UNCHANGED <<templates, secret_registry, encrypted_tally, used_nullifiers,
                   chain, n, now, enrolls, casts_ok, attack, lastOp>>

\* lines 58-65
s_prove(t) ==
    /\ frames[t].pc = "prove"
    /\ \E cast_nonce \in RandBelow(256, MaxNonceDraw), r0 \in RandBelow(p - 2, MaxDraw) :
          LET f       == frames[t]
              secret  == secret_registry[f.voter_id]
              public  == public_from_secret(secret)
              ctx     == <<election_id, f.voter_id, f.candidate, f.nullifier, cast_nonce>>
              proof   == prove_knowledge(secret, ctx, r0 + 1)
          IN  IF ~verify_knowledge(public, proof, ctx)
              THEN Fail(t, ProofInvalidError)
              ELSE Advance(t, [f EXCEPT !.proof = proof, !.cast_nonce = cast_nonce,
                                        !.guards = @ \cup {"proof"}])
    /\ UNCHANGED <<templates, secret_registry, encrypted_tally, used_nullifiers,
                   chain, n, now, enrolls, casts_ok, attack, lastOp>>

\* lines 67-72
s_tally(t) ==
    /\ frames[t].pc = "tally"
    /\ \E er \in RandBelow(n, MaxDraw) :
          encrypted_tally' = TallyUpdate(encrypted_tally, frames[t].candidate,
                                         encrypt(1, n, er), n)
    /\ Advance(t, [frames[t] EXCEPT !.muts = Append(@, "tally")])
    /\ UNCHANGED <<templates, secret_registry, used_nullifiers,
                   chain, n, now, enrolls, casts_ok, attack, lastOp>>

\* lines 74-90
s_append(t) ==
    /\ frames[t].pc = "append"
    /\ Len(chain) < MaxChain
    /\ \E kem_seed \in RandBelow(256, MaxNonceDraw) :
          LET f        == frames[t]
              payload  == MakePayload(f.voter_id, f.candidate, f.nullifier,
                                      f.cast_nonce, f.proof,
                                      templates[f.voter_id].template_id, kem_seed)
              newchain == add_block(chain, payload, now)
          IN  /\ chain' = newchain
              /\ Advance(t, [f EXCEPT !.muts = Append(@, "append"),
                                      !.block_hash = newchain[Len(newchain)].hash])
    /\ now' = now + 1
    /\ UNCHANGED <<templates, secret_registry, encrypted_tally, used_nullifiers,
                   n, enrolls, casts_ok, attack, lastOp>>

\* line 91
s_mark(t) ==
    /\ frames[t].pc = "mark"
    /\ used_nullifiers' = MarkUsed(used_nullifiers, frames[t].nullifier)
    /\ Advance(t, [frames[t] EXCEPT !.muts = Append(@, "mark")])
    /\ UNCHANGED <<templates, secret_registry, encrypted_tally,
                   chain, n, now, enrolls, casts_ok, attack, lastOp>>

\* lines 92-98
s_return(t) ==
    /\ frames[t].pc = "return"
    /\ frames' = [frames EXCEPT
                     ![t].pc = "done", ![t].result = "ok",
                     ![t].ret = [voter_id   |-> frames[t].voter_id,
                                 candidate  |-> frames[t].candidate,
                                 block_hash |-> frames[t].block_hash,
                                 zkp_valid  |-> TRUE,
                                 nullifier  |-> frames[t].nullifier]]
    /\ casts_ok' = casts_ok + 1
    /\ UNCHANGED <<templates, secret_registry, encrypted_tally, used_nullifiers,
                   chain, n, now, enrolls, attack, lastOp>>

\* one enrolment precedes the casts (run_election)
StepNext ==
    \/ enrolls = 0 /\ enroll_voters
    \/ \E t \in Procs, voter_id \in VoterIds, candidate \in Candidates :
          s_call(t, voter_id, candidate)
    \/ \E t \in Procs : s_check_enrolled(t)
    \/ \E t \in Procs : s_check_nullifier(t)
    \/ \E t \in Procs : s_prove(t)
    \/ \E t \in Procs : s_tally(t)
    \/ \E t \in Procs : s_append(t)
    \/ \E t \in Procs : s_mark(t)
    \/ \E t \in Procs : s_return(t)

StepSpec == StepInit /\ [][StepNext]_vars

---------------------------------------------------------------------------
(* VoteChain.add_block iteration by iteration, for a chain constructed     *)
(* with any difficulty_prefix; frames holds the frame of the call          *)

\* VoteChain(difficulty_prefix=...): the default, the empty prefix, and a
\* prefix with a character no hexdigest contains
DifficultyPrefixes == {"000", "", "zzz"}

\* block.hash.startswith(self.difficulty_prefix)
startswith(h, prefix) ==
    CASE prefix = ""    -> TRUE
      [] prefix = "000" -> h.lead = 0
      [] prefix = "zzz" -> FALSE

\* the payloads handed to add_block
MinePayloads == {[voter_id |-> v, candidate |-> c] : v \in VoterIds, c \in Candidates}

\* faulty variant of NextNonce: the search skips every other nonce
NextNonce_Skip(k) == k + 2

\* block.nonce += 1
NextNonce(k) == k + 1

\* block b with nonce k and its hash recomputed (lines 44-45)
WithNonce(b, k) ==
    LET b1 == [b EXCEPT !.nonce = k]
    IN  [b1 EXCEPT !.hash = compute_hash(b1)]

MineInit ==
    /\ templates = <<>>
    /\ secret_registry = <<>>
    /\ encrypted_tally = <<>>
    /\ used_nullifiers = {}
    /\ chain = <<Block(0, ZeroHash, 0, genesis_payload)>>
    /\ n \in keygen
    /\ now = 1
    /\ enrolls = 0
    /\ casts_ok = 0
    /\ attack = NoAttack
    /\ lastOp = [op |-> "init", voter_id |-> SpoofId, candidate |-> "",
                 result |-> "ok", pre |-> <<>>, ret |-> <<>>]
    /\ \E prefix \in DifficultyPrefixes :
          frames = [pc |-> "idle", difficulty_prefix |-> prefix,
                    block |-> <<>>, chain0 |-> chain]

\* add_block is entered: lines 41-42
m_begin ==
    /\ frames.pc = "idle"
    /\ Len(chain) < MaxChain
    /\ \E payload \in MinePayloads :
          frames' = [frames EXCEPT
                        !.pc = "while",
                        !.block = Block(Len(chain), chain[Len(chain)].hash, now, payload),
                        !.chain0 = chain]
    /\ now' = now + 1
    /\ UNCHANGED <<templates, secret_registry, encrypted_tally, used_nullifiers,
                   chain, n, enrolls, casts_ok, attack, lastOp>>

\* lines 43-45: the loop condition holds and the body runs once
m_iterate ==
    /\ frames.pc = "while"
    /\ ~startswith(frames.block.hash, frames.difficulty_prefix)
    /\ frames.block.nonce < MaxNonce
    /\ frames' = [frames EXCEPT
                     !.block = WithNonce(frames.block, NextNonce(frames.block.nonce))]
    /\ UNCHANGED <<templates, secret_registry, encrypted_tally, used_nullifiers,
                   chain, n, now, enrolls, casts_ok, attack, lastOp>>

\* lines 43, 46-47: the loop condition fails, the block is appended
m_append ==
    /\ frames.pc = "while"
    /\ startswith(frames.block.hash, frames.difficulty_prefix)
    /\ chain' = Append(chain, frames.block)
    /\ frames' = [frames EXCEPT !.pc = "idle"]
    /\ UNCHANGED <<templates, secret_registry, encrypted_tally, used_nullifiers,
                   n, now, enrolls, casts_ok, attack, lastOp>>

MineNext == m_begin \/ m_iterate \/ m_append

\* the interpreter keeps running the loop of a call in progress
MineSpec == MineInit /\ [][MineNext]_vars /\ WF_vars(m_iterate \/ m_append)

---------------------------------------------------------------------------
(* VoteChain.validate_chain as a call that returns or raises, on ledgers   *)
(* written by add_block and then changed in place                          *)

\* a bytes object put in a payload: a value json.dumps does not serialize
BytesValue == "b'Mallory'"

\* json.dumps(block_data, sort_keys=True) returns (compute_hash, line 30)
JsonSerializable(payload) ==
    ~(Has(payload, "candidate") /\ payload.candidate = BytesValue)

RECURSIVE ValidateCall(_, _)
\* validate_chain, lines 50-59, with the exception compute_hash can raise
ValidateCall(ch, i) ==
    IF i > Len(ch) THEN "True"
    ELSE IF ch[i].previous_hash # ch[i - 1].hash THEN "False"
    ELSE IF ~JsonSerializable(ch[i].payload) THEN "TypeError"
    ELSE IF compute_hash(ch[i]) # ch[i].hash THEN "False"
    ELSE IF ~startswith_prefix(ch[i].hash) THEN "False"
    ELSE ValidateCall(ch, i + 1)

\* the outcome of the call chain.validate_chain()
validate_chain_call(ch) == ValidateCall(ch, 2)

LedgerLog(op) ==
    [op |-> op, voter_id |-> SpoofId, candidate |-> "", result |-> "ok",
     pre |-> <<>>, ret |-> <<>>]

\* chain.add_block(payload)
l_add_block ==
    /\ Len(chain) < MaxChain
    /\ \E candidate \in Candidates :
          chain' = add_block(chain, [candidate |-> candidate], now)
    /\ now' = now + 1
    /\ lastOp' = LedgerLog("add_block")
    /\ UNCHANGED <<frames, templates, secret_registry, encrypted_tally,
                   used_nullifiers, n, enrolls, casts_ok, attack>>

\* chain.chain[k].payload["candidate"] = value
l_set_payload(k, value) ==
    /\ k \in 1..Len(chain)
    /\ chain' = [chain EXCEPT ![k].payload = SetPayloadField(@, "candidate", value)]
    /\ lastOp' = LedgerLog("tamper")
    /\ UNCHANGED <<frames, templates, secret_registry, encrypted_tally,
                   used_nullifiers, n, now, enrolls, casts_ok, attack>>

\* b = chain.chain[k]; b.hash = b.compute_hash()
l_rehash(k) ==
    /\ k \in 1..Len(chain)
    /\ JsonSerializable(chain[k].payload)
    /\ chain' = [chain EXCEPT ![k].hash = compute_hash(chain[k])]
    /\ lastOp' = LedgerLog("tamper")
    /\ UNCHANGED <<frames, templates, secret_registry, encrypted_tally,
                   used_nullifiers, n, now, enrolls, casts_ok, attack>>

\* chain.chain[k].previous_hash = chain.chain[k - 1].hash
l_relink(k) ==
    /\ k \in 2..Len(chain)
    /\ chain' = [chain EXCEPT ![k].previous_hash = chain[k - 1].hash]
    /\ lastOp' = LedgerLog("tamper")
    /\ UNCHANGED <<frames, templates, secret_registry, encrypted_tally,
                   used_nullifiers, n, now, enrolls, casts_ok, attack>>

\* chain.validate_chain()
l_validate ==
    /\ lastOp' = [LedgerLog("validate_chain") EXCEPT !.ret = validate_chain_call(chain)]
    /\ UNCHANGED <<frames, templates, secret_registry, encrypted_tally,
                   used_nullifiers, chain, n, now, enrolls, casts_ok, attack>>

LedgerNext ==
    \/ l_add_block
    \/ \E k \in 1..MaxChain, value \in {"Eve", BytesValue} : l_set_payload(k, value)
    \/ \E k \in 1..MaxChain : l_rehash(k)
    \/ \E k \in 1..MaxChain : l_relink(k)
    \/ l_validate

LedgerSpec == Init /\ [][LedgerNext]_vars

---------------------------------------------------------------------------
(* The tally update of cast_vote alone, run side by side with the update   *)
(* add(tally.get(candidate, encrypt(0)), encrypt(1)); lastOp holds both    *)
(* tallies and the number of votes of each candidate                       *)

\* encrypted_tally[candidate] = add(encrypted_tally.get(candidate, encrypt(0)), encrypt(1))
TallyUpdate_Specified(tally, candidate, encrypted_zero, encrypted_vote, pk_n) ==
    [c \in DOMAIN tally \cup {candidate} |->
        IF c # candidate THEN tally[c]
        ELSE add(IF candidate \in DOMAIN tally THEN tally[candidate] ELSE encrypted_zero,
                 encrypted_vote, pk_n)]

NoVotes == [c \in Candidates |-> 0]

\* the running state of the two tallies
TallyState ==
    IF lastOp.op = "tally_update" THEN lastOp
    ELSE [op |-> "tally_update", code |-> <<>>, specified |-> <<>>, votes |-> NoVotes]

\* lines 67-72 of cast_vote for one vote, and the specified update
t_vote ==
    /\ \A c \in Candidates : TallyState.votes[c] < MaxVotes
    /\ \E candidate \in Candidates,
          r \in RandBelow(n, MaxDraw), r0 \in RandBelow(n, MaxDraw),
          r1 \in RandBelow(n, MaxDraw) :
          lastOp' = [op |-> "tally_update",
                     code |-> TallyUpdate(TallyState.code, candidate,
                                          encrypt(1, n, r), n),
                     specified |-> TallyUpdate_Specified(TallyState.specified, candidate,
                                          encrypt(0, n, r0), encrypt(1, n, r1), n),
                     votes |-> [TallyState.votes EXCEPT ![candidate] = @ + 1]]
    /\ UNCHANGED <<frames, templates, secret_registry, encrypted_tally,
                   used_nullifiers, chain, n, now, enrolls, casts_ok, attack>>

TallyNext == t_vote

TallySpec == Init /\ [][TallyNext]_vars

---------------------------------------------------------------------------
(* Properties *)

IsVote(b) == Has(b.payload, "nullifier")

\* the nullifiers carried by the payloads of a chain are pairwise different
NoDuplicateNullifiers(ch) ==
    \A i, j \in 1..Len(ch) :
        (i # j /\ IsVote(ch[i]) /\ IsVote(ch[j]))
            => ch[i].payload.nullifier # ch[j].payload.nullifier

\* number of ledger blocks whose payload names candidate c
VoteCount(ch, c) ==
    Cardinality({i \in 1..Len(ch) :
                    Has(ch[i].payload, "candidate") /\ ch[i].payload.candidate = c})

BoolStr(b) == IF b THEN "True" ELSE "False"

\* the ledger before the last operation holds a vote of voter v cast with
\* the template v had when the operation began
VotedWithCurrentTemplate(v) ==
    /\ IsEnrolled(lastOp.pre.templates, v)
    /\ \E i \in 1..Len(lastOp.pre.chain) :
          LET pl == lastOp.pre.chain[i].payload
          IN  /\ Has(pl, "nullifier")
              /\ pl.election_id = election_id
              /\ pl.voter_id = v
              /\ pl.template_id = lastOp.pre.templates[v].template_id

\* C1: a cast_vote for an (election_id, voter_id, template_id) that already
\* has a vote in the ledger, for the same or another candidate, fails with
\* the double-vote RuntimeError, and the decrypted tally, the ledger length
\* and the used-nullifier set are what they were before the call.
C1_DoubleVoteRejected ==
    (lastOp.op = "cast_vote" /\ VotedWithCurrentTemplate(lastOp.voter_id))
        => /\ lastOp.result = "RuntimeError: Replay/double-vote blocked"
           /\ DecryptResults(encrypted_tally, n) = DecryptResults(lastOp.pre.tally, n)
           /\ Len(chain) = Len(lastOp.pre.chain)
           /\ used_nullifiers = lastOp.pre.used

\* a second cast of a voter, for another candidate than the first, was rejected
C1_Witness ==
    /\ lastOp.op = "cast_vote"
    /\ VotedWithCurrentTemplate(lastOp.voter_id)
    /\ lastOp.result = "RuntimeError: Replay/double-vote blocked"
    /\ \E i \in 1..Len(chain) :
          /\ IsVote(chain[i])
          /\ chain[i].payload.voter_id = lastOp.voter_id
          /\ chain[i].payload.candidate # lastOp.candidate

\* C5: decrypt_results() maps every candidate to the number of ledger blocks
\* naming that candidate and has no entry for a candidate without a vote.
C5_TallyEqualsCounts ==
    lastOp.op = "decrypt_results"
        => /\ DOMAIN lastOp.ret = {c \in Candidates : VoteCount(chain, c) > 0}
           /\ \A c \in DOMAIN lastOp.ret : lastOp.ret[c] = VoteCount(chain, c)

\* C7: cast_vote for a voter id with no template fails with KeyError and
\* leaves the encrypted tally, the ledger and the used-nullifier set as
\* they were.
C7_NotEnrolledNoMutation ==
    (lastOp.op = "cast_vote" /\ ~IsEnrolled(lastOp.pre.templates, lastOp.voter_id))
        => /\ lastOp.result = "KeyError"
           /\ encrypted_tally = lastOp.pre.tally
           /\ chain = lastOp.pre.chain
           /\ used_nullifiers = lastOp.pre.used

\* the spoofed identity tried to vote after votes had been committed
C7_Witness ==
    /\ lastOp.op = "cast_vote"
    /\ lastOp.voter_id = SpoofId
    /\ lastOp.result = "KeyError"
    /\ Len(chain) >= 2
    /\ templates # <<>>

\* C8: with enroll_voters and cast_vote as the only writers, no two ledger
\* blocks carry the same nullifier.
C8_LedgerNullifiersUnique == NoDuplicateNullifiers(chain)

\* one voter has two committed votes, cast with two templates
C8_Witness ==
    \E i, j \in 1..Len(chain) :
        /\ i # j
        /\ IsVote(chain[i])
        /\ IsVote(chain[j])
        /\ chain[i].payload.voter_id = chain[j].payload.voter_id
        /\ chain[i].payload.nullifier # chain[j].payload.nullifier

\* C9: the ledger has 1 + (successful casts) blocks, block 0 is the genesis
\* block with the all-zero previous_hash, every later block has its position
\* as index, the hash of its predecessor as previous_hash, a stored hash that
\* is the recomputed one and has the difficulty prefix, and validate_chain()
\* is true.
C9_ChainWellFormed ==
    /\ Len(chain) = 1 + casts_ok
    /\ chain[1].index = 0
    /\ chain[1].previous_hash = ZeroHash
    /\ chain[1].payload = genesis_payload
    /\ \A i \in 2..Len(chain) :
          /\ chain[i].index = i - 1
          /\ chain[i].previous_hash = chain[i - 1].hash
          /\ chain[i].hash = compute_hash(chain[i])
          /\ startswith_prefix(chain[i].hash)
    /\ validate_chain(chain)

\* a cast failed on a ledger of three blocks, one of them mined with a
\* nonce search of at least one step
C9_Witness ==
    /\ Len(chain) = 3
    /\ lastOp.op = "cast_vote"
    /\ lastOp.result # "ok"
    /\ \E i \in 2..Len(chain) : chain[i].nonce > 0

\* C10: validate_unique_nullifiers() returns true exactly when no two
\* blocks carry the same nullifier.
C10_UniqueNullifiersExact ==
    lastOp.op = "audit"
        => lastOp.ret.nullifiers_unique = BoolStr(NoDuplicateNullifiers(chain))

---------------------------------------------------------------------------
(* Properties of the tampered ledger (AttackSpec) *)

C3_RehashBreaksLink ==
    (/\ attack.mode \in {"rehashed", "remined"}
     /\ attack.at <= attack.len0 - 2
     /\ attack.upto <= attack.at)
        => ~validate_chain(chain)

\* a re-mined non-tip block whose new hash has the difficulty prefix
C3_Witness ==
    /\ attack.mode = "remined"
    /\ attack.at = 1
    /\ attack.upto = 1
    /\ attack.len0 = 3
    /\ IsVote(chain[2])
    /\ IsVote(chain[3])
    /\ chain[2].hash = compute_hash(chain[2])
    /\ startswith_prefix(chain[2].hash)

\* C4: the changed block and every successor up to the tip were re-mined
\* in index order; validate_chain() is true.
C4_RemineAllRestores ==
    (attack.mode = "remined" /\ attack.upto = Len(chain) - 1)
        => validate_chain(chain)

\* the changed block had two successors, or one, and all were re-mined
C4_Witness ==
    /\ attack.mode = "remined"
    /\ attack.at \in {0, 1}
    /\ attack.upto = 2
    /\ Len(chain) = 3
    /\ IsVote(chain[2])
    /\ IsVote(chain[3])
    /\ lastOp.op = "remine_successor"

\* C6: after replay_attack appended a copy of the payload of the last vote
\* block, validate_unique_nullifiers() returns false.
C6_ReplayFlagged ==
    (lastOp.op = "replay_attack" /\ IsVote(lastOp.pre.chain[Len(lastOp.pre.chain)]))
        => lastOp.result = "False"

\* C11: for every secret in 1..p-2, every commitment randomness in 1..p-2
\* and every context, the proof made by prove_knowledge for that secret and
\* context is accepted by verify_knowledge with the secret's public value
\* and the same context.
C11_ProofComplete ==
    (lastOp.op = "verify_knowledge" /\ lastOp.context = lastOp.proved_context)
        => lastOp.ret = TRUE

\* a proof for the largest secret, whose response wrapped around p - 1,
\* was verified under its own context
C11_Witness ==
    /\ lastOp.op = "verify_knowledge"
    /\ lastOp.context = lastOp.proved_context
    /\ lastOp.secret = p - 2
    /\ lastOp.r + challenge(lastOp.proof.commitment, lastOp.public,
                            lastOp.context) * lastOp.secret >= p - 1
    /\ lastOp.ret = TRUE

\* C12: a proof made for one context is rejected by verify_knowledge under
\* every other context, whatever the secret.
C12_ContextBound ==
    (lastOp.op = "verify_knowledge" /\ lastOp.context # lastOp.proved_context)
        => lastOp.ret = FALSE

\* C13 as stated: for every key of keygen and every sequence of
\* non-negative integers encrypted and combined with add, decrypting the
\* combined ciphertext gives exactly the sum of the sequence.
C13_SumExact ==
    lastOp.op = "decrypt" => lastOp.ret = Sum(lastOp.values)

\* C13: for every key n of keygen and every sequence of non-negative
\* integers encrypted and combined with add, decrypting the combined
\* ciphertext gives the sum of the sequence modulo n (the sum itself exactly
\* when it is below n).
C13_SumModN ==
    lastOp.op = "decrypt" => lastOp.ret = Sum(lastOp.values) % n

\* three terms whose sum passes the modulus were added and decrypted
C13_Witness ==
    /\ lastOp.op = "decrypt"
    /\ Len(lastOp.values) = 3
    /\ n > 1
    /\ Sum(lastOp.values) > n
    /\ lastOp.ret = Sum(lastOp.values) - n

\* C14: for every voter id and election id at most one vote block of that
\* voter is ever in the ledger, whatever sequence of enroll_voters and
\* cast_vote calls is made (a repeated enroll_voters included).
C14_OneVotePerVoter ==
    \A i, j \in 1..Len(chain) :
        (i # j /\ IsVote(chain[i]) /\ IsVote(chain[j]))
            => <<chain[i].payload.election_id, chain[i].payload.voter_id>>
                 # <<chain[j].payload.election_id, chain[j].payload.voter_id>>

Committed(f) == "append" \in Range(f.muts)

\* C15: of two cast_vote calls for the same voter whose statements
\* interleave, at most one passes the used-nullifier check and commits a
\* block (the check and the marking act as one critical section).
C15_AtMostOneCommits ==
    \A t, u \in Procs :
        (t # u /\ frames[t].voter_id = frames[u].voter_id)
            => ~(Committed(frames[t]) /\ Committed(frames[u]))

\* two calls for the same voter both commit only when they overlap: one
\* made its used-nullifier check while the other was between its own check
\* and its marking
C15_NonOverlappingAtMostOne ==
    \A t, u \in Procs :
        (/\ t # u
         /\ frames[t].voter_id = frames[u].voter_id
         /\ Committed(frames[t]) /\ Committed(frames[u]))
            => (u \in frames[t].overlap \/ t \in frames[u].overlap)

\* two calls for one voter ran one after the other: the first committed,
\* the second was refused at the used-nullifier check
C15_SequentialCalls ==
    \E t, u \in Procs :
        /\ t # u
        /\ frames[t].voter_id = frames[u].voter_id
        /\ frames[t].pc = "done" /\ frames[t].result = "ok"
        /\ frames[u].pc = "done"
        /\ frames[u].result = "RuntimeError: Replay/double-vote blocked"
        /\ frames[t].overlap = {} /\ frames[u].overlap = {}
        /\ Len(chain) = 2

PassedAllGuards(f) == f.guards = {"enrolled", "unused", "proof"}

NullifiersOf(ch) == {ch[i].payload.nullifier : i \in {k \in 1..Len(ch) : IsVote(ch[k])}}

\* C17: within a cast_vote the three guard checks have passed before any
\* mutation, the mutations are made in the order tally update, ledger
\* append, nullifier marking, and every nullifier of the used set is
\* carried by a block of the ledger.
C17_ChecksThenOrderedMutations ==
    /\ \A t \in DOMAIN frames :
          LET f == frames[t]
          IN  /\ f.muts # <<>> => PassedAllGuards(f)
              /\ f.muts \in {<<>>, <<"tally">>, <<"tally", "append">>,
                             <<"tally", "append", "mark">>}
              /\ f.pc = "done" => (f.result = "ok" <=> Len(f.muts) = 3)
    /\ used_nullifiers \subseteq NullifiersOf(chain)

\* a caller has updated the tally and appended its block and is about to
\* mark its nullifier, which is not yet in the used set
C17_Witness ==
    \E t \in DOMAIN frames :
        /\ frames[t].pc = "mark"
        /\ frames[t].muts = <<"tally", "append">>
        /\ frames[t].nullifier \in NullifiersOf(chain)
        /\ frames[t].nullifier \notin used_nullifiers

IsPrefix(s, t) == Len(s) <= Len(t) /\ SubSeq(t, 1, Len(s)) = s

\* C16: under cast_vote (with its add_block), validate_chain and
\* decrypt_results the ledger is append-only: the chain before a step is a
\* prefix of the chain after it, so no block is removed, reordered or changed.
C16_AppendOnly == [][IsPrefix(chain, chain')]_vars

\* a cast_vote appended a third block behind the two that were there
C16_Witness ==
    /\ lastOp.op = "cast_vote"
    /\ lastOp.result = "ok"
    /\ Len(chain) = 3
    /\ Len(lastOp.pre.chain) = 2
    /\ IsPrefix(lastOp.pre.chain, chain)

RebuiltContext(pl) ==
    <<pl.election_id, pl.voter_id, pl.candidate, pl.nullifier, pl.nonce>>

\* the nullifier of a vote payload, recomputed from the payload alone
RebuiltNullifier(pl) == <<"sha256", pl.election_id, pl.voter_id, pl.template_id>>

\* when cast_vote commits a block, the proof in its payload verifies against
\* the public value of the secret the voter has at that moment and the
\* context rebuilt from the payload, and every nullifier of the ledger is
\* the digest of the election_id, voter_id and template_id of its payload
C19_VerifiesAtCommit ==
    /\ (lastOp.op = "cast_vote" /\ lastOp.result = "ok")
          => LET pl == chain[Len(chain)].payload
             IN  /\ IsVote(chain[Len(chain)])
                 /\ verify_knowledge(
                        Pow(g, lastOp.pre.secrets[pl.voter_id], p),
                        pl.zkp, RebuiltContext(pl))
    /\ \A i \in 1..Len(chain) :
          IsVote(chain[i]) => chain[i].payload.nullifier = RebuiltNullifier(chain[i].payload)

\* C19: every vote block of the ledger can be revalidated: the proof in
\* payload.zkp verifies against the voter's public value (recomputed from
\* the secret registry, the only place it can come from) and the context
\* rebuilt from the payload's own election_id, voter_id, candidate,
\* nullifier and nonce, and the payload's nullifier is the digest of the
\* election_id, voter_id and template_id of the same payload.
C19_BlockRevalidates ==
    \A i \in 1..Len(chain) :
        IsVote(chain[i]) =>
            LET pl == chain[i].payload
            IN  /\ verify_knowledge(public_from_secret(secret_registry[pl.voter_id]),
                                    pl.zkp, RebuiltContext(pl))
                /\ pl.nullifier = RebuiltNullifier(pl)

\* two vote blocks are in the ledger, the later one just committed with a
\* proof whose commitment is not that of the earlier one
C19_TwoBlocksCommitted ==
    /\ lastOp.op = "cast_vote" /\ lastOp.result = "ok"
    /\ Len(chain) = 3
    /\ IsVote(chain[2]) /\ IsVote(chain[3])
    /\ chain[3].payload.zkp.commitment # chain[2].payload.zkp.commitment
    /\ chain[3].payload.nullifier = RebuiltNullifier(chain[3].payload)

\* a nonce below MaxNonce + 1 gives block b a hash with the prefix
NonceExists(b, prefix) ==
    \E k \in 0..MaxNonce : startswith(WithNonce(b, k).hash, prefix)

\* the nonce search of the call in progress has tried 0, 1, ... in turn:
\* no nonce below the current one gives a hash with the prefix
SearchedUpward ==
    frames.pc = "while" =>
        /\ frames.block.hash = compute_hash(frames.block)
        /\ \A k \in 0..(frames.block.nonce - 1) :
              ~startswith(WithNonce(frames.block, k).hash, frames.difficulty_prefix)
        /\ chain = frames.chain0

\* every appended block has the smallest nonce whose hash has the prefix
SmallestNonceCommitted ==
    \A i \in 2..Len(chain) :
        /\ startswith(chain[i].hash, frames.difficulty_prefix)
        /\ chain[i].hash = compute_hash(chain[i])
        /\ \A k \in 0..(chain[i].nonce - 1) :
              ~startswith(WithNonce(chain[i], k).hash, frames.difficulty_prefix)
        /\ frames.difficulty_prefix = "000"
              => chain[i] = MineLoop(WithNonce(chain[i], 0))

\* without a nonce that gives the prefix the call never returns and the
\* chain stays as it was when add_block was entered
NoNonceNoReturn ==
    (frames.pc = "while" /\ ~NonceExists(frames.block, frames.difficulty_prefix))
        => /\ chain = frames.chain0
           /\ ~ENABLED m_append
           /\ (frames.block.nonce < MaxNonce => ENABLED m_iterate)

\* C20: add_block tries the nonces 0, 1, 2, ... and appends the block with
\* the smallest nonce whose hash starts with the difficulty prefix; there is
\* no ceiling and no MiningExhausted outcome: a call returns, with the
\* block appended, when such a nonce exists, and when none exists it stays
\* in the loop for ever and the chain is unchanged.
C20_UnboundedSmallestNonce ==
    /\ [](SearchedUpward /\ SmallestNonceCommitted /\ NoNonceNoReturn)
    /\ ((frames.pc = "while" /\ NonceExists(frames.block, frames.difficulty_prefix))
           ~> (frames.pc = "idle" /\ Len(chain) = Len(frames.chain0) + 1))
    /\ [][(frames.pc = "while" /\ ~NonceExists(frames.block, frames.difficulty_prefix))
            => (frames'.pc = "while" /\ chain' = chain)]_vars

\* a block was appended after a search of two increments
C20_Witness ==
    /\ frames.pc = "idle"
    /\ frames.difficulty_prefix = "000"
    /\ Len(chain) = 3
    /\ chain[3].nonce = 2
    /\ startswith(chain[3].hash, "000")
    /\ ~startswith(WithNonce(chain[3], 1).hash, "000")

\* block i of the chain passes the three tests of validate_chain
BlockOk(ch, i) ==
    /\ ch[i].previous_hash = ch[i - 1].hash
    /\ ch[i].hash = compute_hash(ch[i])
    /\ startswith_prefix(ch[i].hash)

\* C21: validate_chain() never raises and, on every chain, tampered ones
\* included, returns true exactly when every non-genesis block is linked to
\* the stored hash of its predecessor, has a stored hash equal to its
\* recomputed hash, and has a stored hash with the difficulty prefix.
C21_ValidateExact ==
    lastOp.op = "validate_chain"
        => lastOp.ret = BoolStr(\A i \in 2..Len(chain) : BlockOk(chain, i))

\* on a chain whose payloads json.dumps can serialize, validate_chain
\* returns, and returns true exactly when every non-genesis block passes
\* the three tests
C21_ExactOnJsonPayloads ==
    (/\ lastOp.op = "validate_chain"
     /\ \A i \in 2..Len(chain) : JsonSerializable(chain[i].payload))
        => lastOp.ret = BoolStr(\A i \in 2..Len(chain) : BlockOk(chain, i))

\* validate_chain returned false on a chain of three blocks whose first
\* two are in order and whose last has a changed payload
C21_FalseAtLastBlock ==
    /\ lastOp.op = "validate_chain"
    /\ Len(chain) = 3
    /\ BlockOk(chain, 2)
    /\ chain[3].payload.candidate = "Eve"
    /\ lastOp.ret = "False"

\* C22: once decrypt_results() has been called the encrypted tally is not
\* mutated again: the operation that follows a decrypt_results (a cast_vote
\* in particular) leaves every candidate's ciphertext as it was.
C22_TallyFrozenAfterDecrypt ==
    [][lastOp.op = "decrypt_results" => encrypted_tally' = encrypted_tally]_vars

\* C23: decrypt_results() is a pure read: the encrypted tally, the ledger,
\* the used-nullifier set and the registries are what they were before the
\* call, and the mapping returned is a function of the encrypted tally alone
\* (each ciphertext modulo n), so a further call with no cast in between
\* returns the same mapping.
C23_DecryptPureRead ==
    lastOp.op = "decrypt_results"
        => /\ encrypted_tally = lastOp.pre.tally
           /\ chain = lastOp.pre.chain
           /\ used_nullifiers = lastOp.pre.used
           /\ templates = lastOp.pre.templates
           /\ secret_registry = lastOp.pre.secrets
           /\ DOMAIN lastOp.ret = DOMAIN encrypted_tally
           /\ \A c \in DOMAIN lastOp.ret : lastOp.ret[c] = encrypted_tally[c] % n

\* the tally of two candidates was decrypted under a key above 1
C23_Witness ==
    /\ lastOp.op = "decrypt_results"
    /\ n = 3
    /\ DOMAIN lastOp.ret = {"Alice", "Bob"}
    /\ lastOp.ret["Alice"] = 1
    /\ encrypted_tally["Alice"] > 1

\* C24: after every sequence of votes the code's tally update (the first
\* vote of a candidate stores encrypt(1), later votes add encrypt(1) to the
\* prior ciphertext) and the update add(tally.get(candidate, encrypt(0)),
\* encrypt(1)) give the same set of candidates and the same decrypted value
\* for every candidate.
C24_UpdatesEquivalent ==
    lastOp.op = "tally_update"
        => /\ DOMAIN lastOp.code = DOMAIN lastOp.specified
           /\ \A c \in DOMAIN lastOp.code :
                 lastOp.code[c] % n = lastOp.specified[c] % n

\* both candidates have votes, one of them more than one, and the two
\* tallies hold different ciphertexts for a candidate
C24_Witness ==
    /\ lastOp.op = "tally_update"
    /\ n = 3
    /\ lastOp.votes["Alice"] = 2
    /\ lastOp.votes["Bob"] = 1
    /\ lastOp.code["Alice"] # lastOp.specified["Alice"]
    /\ lastOp.code["Alice"] % n = 2

\* C26: the decrypted tally of a candidate is the number of votes for the
\* candidate modulo n, n being an odd integer below 2^modulus_bits (1
\* included); it is the number of votes itself exactly when that number is
\* smaller than n.
C26_CountModN ==
    /\ n % 2 = 1 /\ n >= 1 /\ n < Exp2(modulus_bits)
    /\ lastOp.op = "tally_update"
          => \A c \in DOMAIN lastOp.code :
                LET d == lastOp.code[c] - (lastOp.code[c] \div n) * n
                IN  /\ d = lastOp.votes[c] % n
                    /\ (d = lastOp.votes[c]) <=> (lastOp.votes[c] < n)

\* a candidate has as many votes as the modulus 3 and decrypts to 0
C26_Witness ==
    /\ lastOp.op = "tally_update"
    /\ n = 3
    /\ lastOp.votes["Bob"] = 3
    /\ lastOp.code["Bob"] % 3 = 0
    /\ lastOp.votes["Alice"] = 1
    /\ lastOp.code["Alice"] % 3 = 1

\* C25: after any sequence of enroll_voters and cast_vote calls the used
\* set of the orchestrator is exactly the set of nullifiers carried by the
\* ledger's payloads, and it has one element per non-genesis block.
C25_UsedSetMirrorsLedger ==
    /\ used_nullifiers = NullifiersOf(chain)
    /\ Cardinality(used_nullifiers) = Len(chain) - 1

\* two votes are in the ledger and a further cast_vote has just been
\* refused as a double vote
C25_Witness ==
    /\ Len(chain) = 3
    /\ Cardinality(used_nullifiers) = 2
    /\ lastOp.op = "cast_vote"
    /\ lastOp.result = "RuntimeError: Replay/double-vote blocked"
    /\ chain[2].payload.nullifier \in used_nullifiers
    /\ chain[3].payload.nullifier \in used_nullifiers

====
